---- MODULE Spec2Model ----
(***************************************************************************)
(* Nested-route matching and enumeration: router/src/matching/nested/mod.rs *)
(*                                                                         *)
(* A string is a sequence of one-character strings.  Option values are     *)
(* sequences of length at most one: None is <<>>, Some(x) is <<x>>.        *)
(* The opaque fields data and view are carried by no operation that any    *)
(* property below reads, and are left out of the node record.              *)
(***************************************************************************)
EXTENDS Integers, Sequences, FiniteSets

VARIABLES
    ROUTE_ID,      \* the process-wide AtomicU16
    stack,         \* builder values held by the application during setup
    serving,       \* TRUE once the finished tree is used by the router
    path,          \* Option: the input of the last match_nested call
    result,        \* Option: the value the last match_nested call returned
    routes,        \* Option: the entries of the last generate_routes call
    lastOverride,  \* history: route id -> Option(the last ssr_mode() argument)
    firstId,       \* history: Option(the id the first new() obtained)
    lastId         \* history: Option(the id the latest new() obtained)

vars == <<ROUTE_ID, stack, serving, path, result, routes, lastOverride,
          firstId, lastId>>

----------------------------------------------------------------------------
(* Bounds of the model *)

MaxNodes == 3

MaxLen == 6

(* Width of the counter *)

U16 == 65536

----------------------------------------------------------------------------
(* Option *)

None == <<>>

Some(x) == <<x>>

----------------------------------------------------------------------------
(* Paths *)

Chars == {"/", "a"}

Slash == <<"/">>

RECURSIVE StringsUpTo(_)
StringsUpTo(n) ==
    IF n = 0 THEN {<<>>}
    ELSE LET S == StringsUpTo(n - 1)
         IN  S \cup {Append(s, c) : s \in {t \in S : Len(t) = n - 1}, c \in Chars}

Paths == StringsUpTo(MaxLen)

Drop(s, n) == SubSeq(s, n + 1, Len(s))

Take(s, n) == SubSeq(s, 1, n)

(* length of the longest prefix of s that holds no "/" *)
RECURSIVE SegmentLen(_)
SegmentLen(s) ==
    IF s = <<>> \/ Head(s) = "/" THEN 0 ELSE 1 + SegmentLen(Tail(s))

----------------------------------------------------------------------------
(* Segment matchers (PossibleRouteMatch) *)

StaticSegment(lit) == [kind |-> "static", name |-> lit]

ParamSegment(name) == [kind |-> "param", name |-> name]

Segs == {StaticSegment(<<"a">>), ParamSegment("id"), ParamSegment("k")}

PartialPathMatch(remaining, params, matched) ==
    [remaining |-> remaining, params |-> params, matched |-> matched]

test(seg, p) ==
    IF p = <<>> \/ Head(p) # "/" THEN None
    ELSE LET n == SegmentLen(Tail(p))
             word == Take(Tail(p), n)
         IN  IF seg.kind = "static"
             THEN IF word = seg.name
                  THEN Some(PartialPathMatch(Drop(p, n + 1), <<>>, Take(p, n + 1)))
                  ELSE None
             ELSE IF n > 0
                  THEN Some(PartialPathMatch(Drop(p, n + 1),
                                             <<<<seg.name, word>>>>,
                                             Take(p, n + 1)))
                  ELSE None

generate_path(seg) == <<seg>>

----------------------------------------------------------------------------
(* SsrMode *)

Mode(v, r) == [variant |-> v, regenerate |-> r]

OutOfOrder == Mode("OutOfOrder", None)

Static(r) == Mode("Static", r)

DefaultSsrMode == OutOfOrder

SsrModes == {Static(None), Static(Some("R1")), Static(Some("R2"))}

Rank(m) ==
    CASE m.variant = "OutOfOrder" -> 0
      [] m.variant = "Static" -> 1

(* partial_cmp: "Less", "Equal", "Greater", or "None" when unordered *)
partial_cmp(a, b) ==
    IF Rank(a) < Rank(b) THEN "Less"
    ELSE IF Rank(a) > Rank(b) THEN "Greater"
    ELSE IF a.regenerate = b.regenerate THEN "Equal"
    ELSE IF a.regenerate = None THEN "Less"
    ELSE IF b.regenerate = None THEN "Greater"
    ELSE "None"

Gt(a, b) == partial_cmp(a, b) = "Greater"

----------------------------------------------------------------------------
(* Route trees *)

Get == "GET"

NestedRoute(id, segments, children, ssr, methods) ==
    [kind |-> "route", id |-> id, segments |-> segments, children |-> children,
     ssr_mode |-> ssr, methods |-> methods]

(* the unit value (), used as the Children type of a node built by new() *)
Unit == [kind |-> "unit"]

(* a tuple (A, B) of alternative subtrees *)
Pair(a, b) == [kind |-> "pair", a |-> a, b |-> b]

new(id, segments) == NestedRoute(id, segments, None, DefaultSsrMode, {Get})

child(self, c) ==
    NestedRoute(self.id, self.segments, Some(c), self.ssr_mode, self.methods)

(* mutant: an override already applied is kept *)
ssr_mode_FirstWins(self, mode) ==
    IF self.ssr_mode = DefaultSsrMode THEN [self EXCEPT !.ssr_mode = mode]
    ELSE self

ssr_mode(self, mode) == [self EXCEPT !.ssr_mode = mode]

(* the builder methods exist only on NestedRoute<Segments, (), Data, View>: *)
(* the Children type parameter is () after new() and after child(())        *)
ChildrenIsUnitType(self) ==
    self.children = None \/ self.children = Some(Unit)

----------------------------------------------------------------------------
(* Match results *)

RouteMatchId(id) == id

NestedMatch(id, matched, params, inner) ==
    [kind |-> "nested", id |-> id, matched |-> matched, params |-> params,
     child |-> inner]

UnitMatch == [kind |-> "unit"]

Either(side, inner) == [kind |-> "either", side |-> side, inner |-> inner]

MatchReturn(m, remaining) == [m |-> m, remaining |-> remaining]

RECURSIVE to_params(_)
to_params(m) ==
    CASE m.kind = "nested" -> m.params
      [] m.kind = "unit" -> <<>>
      [] m.kind = "either" -> to_params(m.inner)

(* mutant: the trailing slash is not accepted *)
IsTerminal_EmptyOnly(remaining) == remaining = <<>>

(* mutant: the residue is not looked at *)
IsTerminal_Always(remaining) == TRUE

(* remaining.is_empty() || remaining == "/" *)
IsTerminal(remaining) == remaining = <<>> \/ remaining = Slash

(* mutant: the child's params are put first *)
Extend_ChildFirst(params, inner_params) == inner_params \o params

(* params.extend(inner_params) *)
Extend(params, inner_params) == params \o inner_params

(* mutant: unwrap_or_default(), an empty remaining path on failure *)
unwrap_or_Default(opt, p) ==
    IF opt = None THEN [m |-> None, remaining |-> <<>>] ELSE opt[1]

(* .unwrap_or((None, path)) *)
unwrap_or(opt, p) == IF opt = None THEN MatchReturn(None, p) ELSE opt[1]

RECURSIVE match_nested(_, _), Children_match_nested(_, _)

(* the closure given to and_then *)
and_then(self, pm) ==
    LET c == IF self.children = None
             THEN MatchReturn(None, pm.remaining)
             ELSE Children_match_nested(self.children[1], pm.remaining)
    IN  IF self.children # None /\ c.m = None
        THEN None                                   \* inner? leaves the closure
        ELSE LET inner == IF self.children = None THEN None
                          ELSE Some(c.m[1].match)
                 remaining == c.remaining
                 inner_params == IF inner = None THEN <<>>
                                 ELSE to_params(inner[1])
                 id == RouteMatchId(self.id)
             IN  IF IsTerminal(remaining)
                 THEN Some(MatchReturn(
                           Some([id |-> id,
                                 match |-> NestedMatch(id, pm.matched,
                                               Extend(pm.params, inner_params),
                                               inner)]),
                           remaining))
                 ELSE None

match_nested(self, p) ==
    LET t == test(self.segments, p)
    IN  unwrap_or(IF t = None THEN None ELSE and_then(self, t[1]), p)

(* MatchNestedRoutes of the Children type: (), a tuple, or a NestedRoute *)
Children_match_nested(c, p) ==
    CASE c.kind = "unit" ->
           MatchReturn(Some([id |-> RouteMatchId(0), match |-> UnitMatch]), p)
      [] c.kind = "pair" ->
           LET a == match_nested(c.a, p)
               b == match_nested(c.b, p)
           IN  IF a.m # None
               THEN MatchReturn(Some([id |-> a.m[1].id,
                                      match |-> Either("Left", a.m[1].match)]),
                                a.remaining)
               ELSE IF b.m # None
               THEN MatchReturn(Some([id |-> b.m[1].id,
                                      match |-> Either("Right", b.m[1].match)]),
                                b.remaining)
               ELSE MatchReturn(None, p)
      [] c.kind = "route" -> match_nested(c, p)

----------------------------------------------------------------------------
(* Route generation *)

GeneratedRouteData(segments, ssr, methods, regenerate) ==
    [segments |-> segments, ssr_mode |-> ssr, methods |-> methods,
     regenerate |-> regenerate]

PathSegmentUnit == [kind |-> "unit", name |-> <<>>]

(* the regenerate list of a node, from its own mode *)
Regenerate(ssr) ==
    IF ssr.variant = "Static"
    THEN IF ssr.regenerate = None THEN <<>> ELSE <<ssr.regenerate[1]>>
    ELSE <<>>

(* mutant: the child's segments are put first *)
Chain_ChildFirst(segment_routes, child_segments) ==
    child_segments \o segment_routes

(* segment_routes.clone().into_iter().chain(child.segments).collect() *)
Chain(segment_routes, child_segments) == segment_routes \o child_segments

(* mutant: the parent wins only when it is strictly greater *)
MergeSsrMode_ChildBiased(child_mode, ssr) ==
    IF Gt(ssr, child_mode) THEN ssr ELSE child_mode

(* mutant: the parent's mode is always kept *)
MergeSsrMode_KeepParent(child_mode, ssr) == ssr

(* if child.ssr_mode > ssr_mode { child.ssr_mode } else { ssr_mode.clone() } *)
MergeSsrMode(child_mode, ssr) == IF Gt(child_mode, ssr) THEN child_mode ELSE ssr

(* the closure given to map *)
Combine(segment_routes, ssr, methods, regenerate, c) ==
    GeneratedRouteData(Chain(segment_routes, c.segments),
                       MergeSsrMode(c.ssr_mode, ssr),
                       methods \cup c.methods,
                       regenerate \o c.regenerate)

RECURSIVE generate_routes(_), Children_generate_routes(_)

generate_routes(self) ==
    LET segment_routes == generate_path(self.segments)
        ssr == self.ssr_mode
        methods == self.methods
        regenerate == Regenerate(ssr)
    IN  IF self.children = None
        THEN <<GeneratedRouteData(segment_routes, ssr, methods, regenerate)>>
        ELSE LET cs == Children_generate_routes(self.children[1])
             IN  [i \in 1..Len(cs) |->
                     Combine(segment_routes, ssr, methods, regenerate, cs[i])]

Children_generate_routes(c) ==
    CASE c.kind = "unit" ->
           <<GeneratedRouteData(<<PathSegmentUnit>>, DefaultSsrMode, {}, <<>>)>>
      [] c.kind = "pair" -> generate_routes(c.a) \o generate_routes(c.b)
      [] c.kind = "route" -> generate_routes(c)

----------------------------------------------------------------------------
(* State *)

Top == stack[Len(stack)]

Push(s, x) == Append(s, x)

Init ==
    /\ ROUTE_ID = 1
    /\ stack = <<>>
    /\ serving = FALSE
    /\ path = None
    /\ result = None
    /\ routes = None
    /\ lastOverride = <<>>
    /\ firstId = None
    /\ lastId = None

(* ROUTE_ID.fetch_add(1, Ordering::Relaxed): one atomic step *)
fetch_add(counter, n) == (counter + n) % U16

Allocated(id) ==
    /\ ROUTE_ID' = fetch_add(ROUTE_ID, 1)
    /\ lastId' = Some(id)
    /\ firstId' = IF firstId = None THEN Some(id) ELSE firstId

(* NestedRoute::new(path, view), its value kept by the application *)
New(seg) ==
    /\ ~serving
    /\ ROUTE_ID <= MaxNodes
    /\ LET id == ROUTE_ID
       IN  /\ Allocated(id)
           /\ stack' = Push(stack, new(id, seg))
           /\ lastOverride' = [i \in DOMAIN lastOverride \cup {id} |->
                                 IF i = id THEN None ELSE lastOverride[i]]
    /\ UNCHANGED <<serving, path, result, routes>>

(* NestedRoute::new(path, view), its value dropped at once *)
NewDiscard(seg) ==
    /\ stack = <<>>
    /\ Allocated(ROUTE_ID)
    /\ UNCHANGED <<stack, serving, path, result, routes, lastOverride>>

(* parent.child(sub): parent and sub are the two newest builder values *)
Child ==
    /\ ~serving
    /\ Len(stack) >= 2
    /\ LET n == Len(stack)
       IN  /\ ChildrenIsUnitType(stack[n - 1])
           /\ stack' = Push(Take(stack, n - 2), child(stack[n - 1], stack[n]))
    /\ UNCHANGED <<ROUTE_ID, serving, path, result, routes, lastOverride,
                   firstId, lastId>>

(* node.child(()) *)
ChildUnit ==
    /\ ~serving
    /\ Len(stack) >= 1
    /\ LET n == Len(stack)
       IN  /\ ChildrenIsUnitType(stack[n])
           /\ stack' = Push(Take(stack, n - 1), child(stack[n], Unit))
    /\ UNCHANGED <<ROUTE_ID, serving, path, result, routes, lastOverride,
                   firstId, lastId>>

(* parent.child((a, b)) *)
ChildPair ==
    /\ ~serving
    /\ Len(stack) >= 3
    /\ LET n == Len(stack)
       IN  /\ ChildrenIsUnitType(stack[n - 2])
           /\ stack' = Push(Take(stack, n - 3),
                            child(stack[n - 2], Pair(stack[n - 1], stack[n])))
    /\ UNCHANGED <<ROUTE_ID, serving, path, result, routes, lastOverride,
                   firstId, lastId>>

(* node.ssr_mode(mode) on the newest builder value *)
SsrModeOp(mode) ==
    /\ ~serving
    /\ Len(stack) >= 1
    /\ LET n == Len(stack)
       IN  /\ ChildrenIsUnitType(stack[n])
           /\ stack' = Push(Take(stack, n - 1), ssr_mode(stack[n], mode))
           /\ lastOverride' = [lastOverride EXCEPT ![stack[n].id] = Some(mode)]
    /\ UNCHANGED <<ROUTE_ID, serving, path, result, routes, firstId, lastId>>

(* the router calls match_nested on the finished tree *)
Match(p) ==
    /\ Len(stack) = 1
    /\ result = None
    /\ serving' = TRUE
    /\ path' = Some(p)
    /\ result' = Some(match_nested(stack[1], p))
    /\ UNCHANGED <<ROUTE_ID, stack, routes, lastOverride, firstId, lastId>>

(* the router calls generate_routes on the finished tree *)
Generate ==
    /\ Len(stack) = 1
    /\ routes = None
    /\ serving' = TRUE
    /\ routes' = Some(generate_routes(stack[1]))
    /\ UNCHANGED <<ROUTE_ID, stack, path, result, lastOverride, firstId, lastId>>

(* the caller drops the values the last calls returned *)
Discard ==
    /\ result # None \/ routes # None
    /\ path' = None
    /\ result' = None
    /\ routes' = None
    /\ UNCHANGED <<ROUTE_ID, stack, serving, lastOverride, firstId, lastId>>

Next ==
    \/ \E seg \in Segs : New(seg)
    \/ \E seg \in Segs : NewDiscard(seg)
    \/ Child
    \/ ChildUnit
    \/ ChildPair
    \/ \E mode \in SsrModes : SsrModeOp(mode)
    \/ \E p \in Paths : Match(p)
    \/ Generate
    \/ Discard

Spec == Init /\ [][Next]_vars

(* setup and matching *)
NextMatch ==
    \/ \E seg \in Segs : New(seg)
    \/ Child
    \/ ChildUnit
    \/ ChildPair
    \/ \E p \in Paths : Match(p)
    \/ Discard

SpecMatch == Init /\ [][NextMatch]_vars

(* setup and generation *)
NextGen ==
    \/ \E seg \in Segs : New(seg)
    \/ Child
    \/ ChildUnit
    \/ ChildPair
    \/ \E mode \in SsrModes : SsrModeOp(mode)
    \/ Generate
    \/ Discard

SpecGen == Init /\ [][NextGen]_vars

(* allocation alone, over the whole range of the counter *)
NextAlloc == \E seg \in Segs : NewDiscard(seg)

SpecAlloc == Init /\ [][NextAlloc]_vars

----------------------------------------------------------------------------
(* What the properties read *)

Root == stack[1]

Called == Len(stack) = 1 /\ result # None

Generated == Len(stack) = 1 /\ routes # None

IsMatch(r) == r.m # None

(* the route nodes of a subtree *)
RECURSIVE Nodes(_)
Nodes(t) ==
    CASE t.kind = "unit" -> {}
      [] t.kind = "pair" -> Nodes(t.a) \cup Nodes(t.b)
      [] t.kind = "route" ->
           {t} \cup (IF t.children = None THEN {} ELSE Nodes(t.children[1]))

AllNodes == UNION {Nodes(stack[i]) : i \in DOMAIN stack}

(* the number of entries a subtree stands for *)
RECURSIVE Leaves(_)
Leaves(t) ==
    CASE t.kind = "unit" -> 1
      [] t.kind = "pair" -> Leaves(t.a) + Leaves(t.b)
      [] t.kind = "route" ->
           IF t.children = None THEN 1 ELSE Leaves(t.children[1])

(* the spans consumed by a match and the matches nested in it, in order *)
RECURSIVE Spans(_)
Spans(m) ==
    CASE m.kind = "unit" -> <<>>
      [] m.kind = "either" -> Spans(m.inner)
      [] m.kind = "nested" ->
           m.matched \o (IF m.child = None THEN <<>> ELSE Spans(m.child[1]))

(* each matcher's own params along the chain a match went down, root first, *)
(* from the segment matchers alone                                          *)
RECURSIVE OwnParamsChain(_, _, _)
OwnParamsChain(t, m, p) ==
    CASE t.kind = "unit" -> <<>>
      [] t.kind = "pair" ->
           IF m.side = "Left" THEN OwnParamsChain(t.a, m.inner, p)
           ELSE OwnParamsChain(t.b, m.inner, p)
      [] t.kind = "route" ->
           LET pm == test(t.segments, p)[1]
           IN  pm.params \o
               (IF t.children = None THEN <<>>
                ELSE OwnParamsChain(t.children[1], m.child[1], pm.remaining))

Elems(s) == {s[i] : i \in DOMAIN s}

----------------------------------------------------------------------------
(* C1: whenever match_nested produces no match it returns the original     *)
(* input path as the remaining path, never a partial remainder.            *)
C1_NoMatchReturnsOriginalPath ==
    Called => (~IsMatch(result[1]) => result[1].remaining = path[1])

(* C1 witness: the matcher consumed a prefix, the child subtree then failed *)
C1_Witness ==
    /\ Called
    /\ ~IsMatch(result[1])
    /\ Root.children # None
    /\ Root.children[1].kind = "route"
    /\ test(Root.segments, path[1]) # None
    /\ LET r == test(Root.segments, path[1])[1].remaining
       IN  /\ r # path[1]
           /\ test(Root.children[1].segments, r) # None
           /\ result[1].remaining = path[1]

(* C2: a node with no child matches iff its matcher succeeds and leaves ""  *)
(* or "/"; the match then has the matcher's own params and no child.        *)
C2_LeafMatchesIffTerminal ==
    (Called /\ Root.children = None) =>
        LET t == test(Root.segments, path[1])
            r == result[1]
        IN  /\ IsMatch(r) <=>
                  (t # None /\ (t[1].remaining = <<>> \/ t[1].remaining = <<"/">>))
            /\ IsMatch(r) =>
                  /\ r.m[1].match.params = t[1].params
                  /\ r.m[1].match.child = None
                  /\ r.m[1].match.matched = t[1].matched

(* C2 witness: a leaf matched a path with a trailing slash and took a param *)
C2_Witness ==
    /\ Called
    /\ Root.children = None
    /\ IsMatch(result[1])
    /\ result[1].remaining = <<"/">>
    /\ result[1].m[1].match.params # <<>>

(* C3: a match is reported only with remaining path "" or "/": the node and *)
(* its descendants consumed the whole input but for that.                   *)
C3_MatchConsumesWholePath ==
    (Called /\ IsMatch(result[1])) =>
        /\ result[1].remaining \in {<<>>, <<"/">>}
        /\ Spans(result[1].m[1].match) \o result[1].remaining = path[1]

(* C3 witness: parent and child matched, a trailing slash left over *)
C3_Witness ==
    /\ Called
    /\ IsMatch(result[1])
    /\ result[1].remaining = <<"/">>
    /\ Root.children # None
    /\ Root.children[1].kind = "route"
    /\ result[1].m[1].match.child[1].matched # <<>>

C5_IdsDistinctAndIncreasing ==
    [][ROUTE_ID' # ROUTE_ID =>
          /\ lastId # None => lastId'[1] > lastId[1]
          /\ firstId # None => lastId'[1] # firstId[1]]_vars

(* C6: once a node has a child attached, that child is never replaced. *)
C6_ChildAttachedAtMostOnce ==
    [][\A i \in DOMAIN stack : \A j \in DOMAIN stack' :
          (stack[i].id = stack'[j].id /\ stack[i].children # None)
              => stack'[j].children = stack[i].children]_vars

(* C7 as stated: the override can be applied to the node being built at any *)
(* point of its construction, also after a child is attached.               *)
C7_OverrideAlwaysApplicable ==
    (~serving /\ stack # <<>>) => ENABLED (\E mode \in SsrModes : SsrModeOp(mode))

(* C7 amended: every node carries the last override applied to it, or the   *)
(* default mode when none was, and generate_routes uses that mode; the      *)
(* override is applied only while the Children type is still ().            *)
C7_LastOverrideWins ==
    /\ \A n \in AllNodes :
          n.ssr_mode = IF lastOverride[n.id] = None THEN DefaultSsrMode
                       ELSE lastOverride[n.id][1]
    /\ (Generated /\ ChildrenIsUnitType(Root)) =>
          /\ routes[1][1].ssr_mode =
                IF lastOverride[Root.id] = None THEN DefaultSsrMode
                ELSE lastOverride[Root.id][1]
          /\ routes[1][1].regenerate =
                IF lastOverride[Root.id] = None THEN <<>>
                ELSE Regenerate(lastOverride[Root.id][1])

(* C7 witness: routes generated from a node with a unit child attached and  *)
(* an override, carrying a regeneration descriptor, in force                *)
C7_Witness ==
    /\ Generated
    /\ Root.children = Some(Unit)
    /\ lastOverride[Root.id] # None
    /\ routes[1][1].regenerate # <<>>
    /\ routes[1][1].ssr_mode = lastOverride[Root.id][1]

(* C8: a combined entry's mode is the child entry's mode when that is       *)
(* strictly greater than the node's own mode, and the node's own otherwise. *)
C8_MergeIsParentBiased ==
    (Generated /\ Root.children # None) =>
        LET cs == Children_generate_routes(Root.children[1])
            P == Root.ssr_mode
        IN  \A i \in DOMAIN routes[1] :
               /\ i \in DOMAIN cs
               /\ routes[1][i].ssr_mode \in {P, cs[i].ssr_mode}
               /\ routes[1][i].ssr_mode =
                     IF partial_cmp(cs[i].ssr_mode, P) = "Greater"
                     THEN cs[i].ssr_mode ELSE P

(* C8 witness: child mode and parent mode are unordered, the parent's kept *)
C8_Witness ==
    /\ Generated
    /\ Root.children # None
    /\ Root.children[1].kind = "route"
    /\ partial_cmp(Root.children[1].ssr_mode, Root.ssr_mode) = "None"
    /\ routes[1][1].ssr_mode = Root.ssr_mode

C10_OneEntryPerChildEntry ==
    Generated =>
        /\ Len(routes[1]) = Leaves(Root)
        /\ Root.children = None => Len(routes[1]) = 1
        /\ Root.children # None =>
              LET cs == Children_generate_routes(Root.children[1])
              IN  /\ Len(routes[1]) = Len(cs)
                  /\ \A i \in DOMAIN cs :
                        routes[1][i].segments =
                            generate_path(Root.segments) \o cs[i].segments

(* C10 witness: two alternatives below the root, two entries *)
C10_Witness ==
    /\ Generated
    /\ Root.children # None
    /\ Root.children[1].kind = "pair"
    /\ Len(routes[1]) = 2
    /\ routes[1][1].segments # routes[1][2].segments

====
